---- MODULE Spec2Model ----
(***************************************************************************)
(* Model of the in-memory writable filesystem of package wfs (map.go) and  *)
(* of the helpers Create and WriteFile (wfs.go).                           *)
(*                                                                         *)
(* A path is a sequence of one-character strings, so that the code's raw   *)
(* string operations (strings.HasPrefix, path.Split, fs.ValidPath) are     *)
(* computed character by character.  The path table fstest.MapFS is a      *)
(* function from paths to references into a heap of *fstest.MapFile        *)
(* objects: a handle keeps the reference it took at open time (mfile),     *)
(* whatever happens to the table afterwards.                               *)
(***************************************************************************)
EXTENDS Integers, Sequences, FiniteSets, TLC

VARIABLES fsys,    \* fstest.MapFS: path -> reference to a MapFile
          heap,    \* the MapFile objects: reference -> [Mode, Data]
          hs,      \* the caller's handles (*mapFsFile), or Closed
          last     \* the last call: operation, arguments and results

vars == <<fsys, heap, hs, last>>

----------------------------------------------------------------------------
(* Bounds of the model *)

\* longest file content, largest cursor and largest offset explored
MaxLen == 3
\* longest buffer handed to Read, ReadAt, Write and WriteAt
MaxBuf == 2
\* number of MapFile objects alive at once
MaxRecs == 3
\* longest path (in characters) the path table gets
MaxPath == 5

Byte == {0, 1}
Bufs == UNION {[1..n -> Byte] : n \in 0..MaxBuf}
RecIds == 1..MaxRecs
Handles == {"A"}
\* the nil *fstest.MapFile
Nil == 0
NoHandle == "none"

----------------------------------------------------------------------------
(* Open flags (package os, linux values) and bit operations on them *)

O_RDONLY == 0
O_WRONLY == 1
O_RDWR == 2
O_CREATE == 64
O_TRUNC == 512
O_APPEND == 1024

RECURSIVE BitAnd(_, _)
BitAnd(x, y) ==
    IF x = 0 \/ y = 0 THEN 0
    ELSE (x % 2) * (y % 2) + 2 * BitAnd(x \div 2, y \div 2)

RECURSIVE BitOr(_, _)
BitOr(x, y) ==
    IF x = 0 /\ y = 0 THEN 0
    ELSE (IF x % 2 = 1 \/ y % 2 = 1 THEN 1 ELSE 0) + 2 * BitOr(x \div 2, y \div 2)

AccessModes == {O_RDONLY, O_WRONLY, O_RDWR}
Flags == {BitOr(BitOr(a, c), BitOr(t, p)) :
            a \in AccessModes, c \in {0, O_CREATE}, t \in {0, O_TRUNC}, p \in {0, O_APPEND}}

\* io.SeekStart, io.SeekCurrent, io.SeekEnd
SeekStart == 0
SeekCurrent == 1
SeekEnd == 2

----------------------------------------------------------------------------
(* Errors *)

NoErr == "nil"
ErrNotExist == "ErrNotExist"      \* fs.ErrNotExist
ErrInvalid == "ErrInvalid"        \* fs.ErrInvalid
EOF == "EOF"                      \* io.EOF
EISDIR == "EISDIR"
EBADF == "EBADF"
EINVAL == "EINVAL"
ErrAppend == "invalid use of WriteAt on file opened with O_APPEND"
ErrNegOffset == "negative offset"
ErrNegPosition == "bytes.Reader.Seek: negative position"
EEXIST == "EEXIST"
ENOENT == "ENOENT"
ENOTDIR == "ENOTDIR"
ENOTEMPTY == "ENOTEMPTY"
ErrWhence == "bytes.Reader.Seek: invalid whence"

----------------------------------------------------------------------------
(* File modes: fs.FileMode as its directory bit and its permission bits *)

FileMode(d, p) == [dir |-> d, perm |-> p]
IsDir(m) == m.dir
\* fs.ModeDir | 0555, the mode of a directory MapFS synthesizes
SynthDirMode == FileMode(TRUE, 365)

----------------------------------------------------------------------------
(* Paths *)

Slash == "/"

HasPrefix(name, prefix) ==
    /\ Len(prefix) <= Len(name)
    /\ SubSeq(name, 1, Len(prefix)) = prefix

\* index of the last "/" in name, 0 when there is none
LastSlash(name) ==
    LET S == {i \in 1..Len(name) : name[i] = Slash}
    IN IF S = {} THEN 0 ELSE CHOOSE i \in S : \A j \in S : j <= i

\* the dir part of path.Split(name): everything up to and including the last "/"
SplitDir(name) == SubSeq(name, 1, LastSlash(name))

\* fs.ValidPath: "." or slash-separated elements, none of them "", "." or ".."
RECURSIVE ValidElems(_)
ValidElems(name) ==
    LET S == {i \in 1..Len(name) : name[i] = Slash}
        i == IF S = {} THEN Len(name) + 1 ELSE CHOOSE k \in S : \A j \in S : k <= j
        elem == SubSeq(name, 1, i - 1)
    IN IF elem = <<>> \/ elem = <<".">> \/ elem = <<".", ".">> THEN FALSE
       ELSE IF i = Len(name) + 1 THEN TRUE
       ELSE ValidElems(SubSeq(name, i + 1, Len(name)))

ValidPath(name) == name = <<".">> \/ ValidElems(name)

----------------------------------------------------------------------------
(* fstest.MapFS as the code uses it: Open, and the FileInfo of what it opens *)

NoFile == [Mode |-> FileMode(FALSE, 0), Data |-> <<>>]

\* some entry of the table lies under name + "/"
HasChildren(fs, name) ==
    \E k \in DOMAIN fs : HasPrefix(k, name \o <<Slash>>)

\* MapFS.Open(name) followed by Stat and io.ReadAll of the opened file.
\* err: the error of Open; mode, size: what Stat reports; data: what
\* io.ReadAll returns (nothing for a directory); rec: f.MapFS[name].
MapOpen(fs, hp, name) ==
    LET rec == IF name \in DOMAIN fs THEN fs[name] ELSE Nil
        none == [err |-> ErrNotExist, mode |-> FileMode(FALSE, 0), size |-> 0,
                 data |-> <<>>, rec |-> rec]
    IN IF ~ValidPath(name) THEN none
       ELSE IF rec # Nil /\ ~IsDir(hp[rec].Mode)
       THEN [err |-> NoErr, mode |-> hp[rec].Mode, size |-> Len(hp[rec].Data),
             data |-> hp[rec].Data, rec |-> rec]
       ELSE IF name # <<".">> /\ rec = Nil /\ ~HasChildren(fs, name) THEN none
       ELSE [err |-> NoErr,
             mode |-> IF rec = Nil THEN SynthDirMode ELSE hp[rec].Mode,
             size |-> IF rec = Nil THEN 0 ELSE Len(hp[rec].Data),
             data |-> <<>>, rec |-> rec]

\* mapFs.Stat
Stat(fs, hp, name) ==
    LET o == MapOpen(fs, hp, name)
    IN [err |-> o.err, mode |-> o.mode, size |-> o.size, isDir |-> IsDir(o.mode)]

\* the references the table and the handles hold
Live(fs, h) ==
    {fs[k] : k \in DOMAIN fs}
        \cup {h[x].mfile : x \in {y \in DOMAIN h : h[y].open}}

\* a MapFile nobody refers to any more is gone
Collect(fs, hp, h) ==
    [r \in RecIds |-> IF r \in Live(fs, h) THEN hp[r] ELSE NoFile]

\* the reference a new MapFile gets
NewRec(fs, h) ==
    LET free == RecIds \ Live(fs, h)
    IN IF free = {} THEN Nil ELSE CHOOSE r \in free : \A q \in free : r <= q

----------------------------------------------------------------------------
(* bytes.Reader as the handle uses it: the bytes s and the cursor i *)

Min(a, b) == IF a < b THEN a ELSE b
Max(a, b) == IF a < b THEN b ELSE a
Zeros(n) == [k \in 1..n |-> 0]
\* s[from:] in Go terms (from counted from 0), empty when from >= len(s)
From(s, from) == SubSeq(s, from + 1, Len(s))

\* bytes.Reader.Seek taking io.SeekEnd for io.SeekStart
ReaderSeekEndAsStart(r, offset, whence) ==
    LET abs == IF whence = SeekCurrent THEN r.i + offset ELSE offset
    IN IF abs < 0 THEN [r |-> r, n |-> 0, err |-> ErrNegPosition]
       ELSE [r |-> [r EXCEPT !.i = abs], n |-> abs, err |-> NoErr]

\* bytes.Reader.Seek
ReaderSeek(r, offset, whence) ==
    LET abs == CASE whence = SeekStart -> offset
                 [] whence = SeekCurrent -> r.i + offset
                 [] whence = SeekEnd -> Len(r.s) + offset
                 [] OTHER -> 0
    IN IF whence \notin {SeekStart, SeekCurrent, SeekEnd}
       THEN [r |-> r, n |-> 0, err |-> ErrWhence]
       ELSE IF abs < 0 THEN [r |-> r, n |-> 0, err |-> ErrNegPosition]
       ELSE [r |-> [r EXCEPT !.i = abs], n |-> abs, err |-> NoErr]

\* bytes.Reader.Read into a buffer of n bytes
ReaderRead(r, n) ==
    IF r.i >= Len(r.s) THEN [r |-> r, n |-> 0, out |-> <<>>, err |-> EOF]
    ELSE LET got == SubSeq(r.s, r.i + 1, Min(Len(r.s), r.i + n))
         IN [r |-> [r EXCEPT !.i = r.i + Len(got)], n |-> Len(got),
             out |-> got, err |-> NoErr]

\* bytes.Reader.ReadAt into a buffer of n bytes
ReaderReadAt(r, n, off) ==
    IF off < 0 THEN [n |-> 0, out |-> <<>>, err |-> "bytes.Reader.ReadAt: negative offset"]
    ELSE IF off >= Len(r.s) THEN [n |-> 0, out |-> <<>>, err |-> EOF]
    ELSE LET got == SubSeq(r.s, off + 1, Min(Len(r.s), off + n))
         IN [n |-> Len(got), out |-> got,
             err |-> IF Len(got) < n THEN EOF ELSE NoErr]

----------------------------------------------------------------------------
(* The handle, *mapFsFile *)

Closed == [open |-> FALSE, name |-> <<>>, flag |-> 0, perm |-> FileMode(FALSE, 0),
           mfile |-> Nil, reader |-> [s |-> <<>>, i |-> 0]]

\* CanWrite without the test of the flag
CanWriteAny(f) == ~IsDir(f.perm)

\* the handle may write: flag & (O_WRONLY|O_RDWR) != 0 on a non-directory
CanWrite(f) == ~IsDir(f.perm) /\ BitAnd(f.flag, BitOr(O_WRONLY, O_RDWR)) # 0

\* the read check of Read and ReadAt passes
CanRead(f) ==
    ~(BitAnd(f.flag, BitOr(O_RDONLY, O_RDWR)) = 0 /\ f.flag # 0)

\* reset that takes the record's bytes and puts the cursor at the start
FileResetRewind(hp, f) ==
    [f EXCEPT !.reader = [s |-> hp[f.mfile].Data, i |-> 0]]

\* mapFsFile.reset: the reader takes the record's bytes, the cursor stays
FileReset(hp, f) ==
    LET pos == ReaderSeek(f.reader, 0, SeekCurrent).n
        fresh == [s |-> hp[f.mfile].Data, i |-> 0]
    IN [f EXCEPT !.reader = ReaderSeek(fresh, pos, SeekStart).r]

\* Seek that takes a negative position for the start of the file
FileSeekClamp(f, offset, whence) ==
    IF IsDir(f.perm) THEN [f |-> f, n |-> 0, err |-> EISDIR]
    ELSE LET s == ReaderSeek(f.reader, offset, whence)
         IN IF s.err = ErrNegPosition
            THEN [f |-> [f EXCEPT !.reader.i = 0], n |-> 0, err |-> NoErr]
            ELSE [f |-> [f EXCEPT !.reader = s.r], n |-> s.n, err |-> s.err]

\* mapFsFile.Seek
FileSeek(f, offset, whence) ==
    IF IsDir(f.perm) THEN [f |-> f, n |-> 0, err |-> EISDIR]
    ELSE LET s == ReaderSeek(f.reader, offset, whence)
         IN [f |-> [f EXCEPT !.reader = s.r], n |-> s.n, err |-> s.err]

\* mapFsFile.Read
FileRead(f, n) ==
    IF IsDir(f.perm) THEN [f |-> f, n |-> 0, out |-> <<>>, err |-> EISDIR]
    ELSE IF ~CanRead(f) THEN [f |-> f, n |-> 0, out |-> <<>>, err |-> EBADF]
    ELSE LET rd == ReaderRead(f.reader, n)
         IN [f |-> [f EXCEPT !.reader = rd.r], n |-> rd.n, out |-> rd.out, err |-> rd.err]

\* mapFsFile.ReadAt
FileReadAt(f, n, off) ==
    IF IsDir(f.perm) THEN [f |-> f, n |-> 0, out |-> <<>>, err |-> EISDIR]
    ELSE IF ~CanRead(f) THEN [f |-> f, n |-> 0, out |-> <<>>, err |-> EBADF]
    ELSE IF off < 0 \/ off > Len(f.reader.s)
    THEN [f |-> f, n |-> 0, out |-> <<>>, err |-> ErrInvalid]
    ELSE LET rd == ReaderReadAt(f.reader, n, off)
         IN [f |-> f, n |-> rd.n, out |-> rd.out, err |-> rd.err]

\* Expand that never grows the slice
ExpandNone(data, end) == data

\* "expand the slice if necessary": zero bytes appended up to end
Expand(data, end) ==
    IF end > Len(data) THEN data \o Zeros(end - Len(data)) ELSE data

\* copy(data[pos:], b): the bytes after the copy and the number copied
CopyAt(data, pos, b) ==
    LET n == Min(Len(data) - pos, Len(b))
    IN [data |-> [k \in 1..Len(data) |->
                    IF k > pos /\ k <= pos + n THEN b[k - pos] ELSE data[k]],
        n |-> n]

\* Write that lays the bytes over the handle's own copy of the data and
\* stores the result, not over the data the record has now
FileWriteSnapshot(hp, f, b) ==
    IF ~CanWrite(f) THEN [hp |-> hp, f |-> f, n |-> 0, err |-> EBADF]
    ELSE LET pos == FileSeek(f, 0, SeekCurrent).n
             end == pos + Len(b)
             c == CopyAt(Expand(f.reader.s, end), pos, b)
             hp1 == [hp EXCEPT ![f.mfile].Data = c.data]
             f1 == FileReset(hp1, f)
         IN [hp |-> hp1,
             f |-> [f1 EXCEPT !.reader = ReaderSeek(f1.reader, c.n, SeekCurrent).r],
             n |-> c.n, err |-> NoErr]

\* mapFsFile.Write
FileWrite(hp, f, b) ==
    IF ~CanWrite(f) THEN [hp |-> hp, f |-> f, n |-> 0, err |-> EBADF]
    ELSE LET pos == FileSeek(f, 0, SeekCurrent).n
             end == pos + Len(b)
             c == CopyAt(Expand(hp[f.mfile].Data, end), pos, b)
             hp1 == [hp EXCEPT ![f.mfile].Data = c.data]
             f1 == FileReset(hp1, f)
         IN [hp |-> hp1,
             f |-> [f1 EXCEPT !.reader = ReaderSeek(f1.reader, c.n, SeekCurrent).r],
             n |-> c.n, err |-> NoErr]

\* WriteAt that leaves the cursor behind the bytes written, as Write does
FileWriteAtMoves(hp, f, b, off) ==
    IF BitAnd(f.flag, O_APPEND) # 0
    THEN [hp |-> hp, f |-> f, n |-> 0, err |-> ErrAppend]
    ELSE IF ~CanWrite(f) THEN [hp |-> hp, f |-> f, n |-> 0, err |-> EBADF]
    ELSE IF off < 0 THEN [hp |-> hp, f |-> f, n |-> 0, err |-> ErrNegOffset]
    ELSE LET end == off + Len(b)
             c == CopyAt(Expand(hp[f.mfile].Data, end), off, b)
             hp1 == [hp EXCEPT ![f.mfile].Data = c.data]
             f1 == FileReset(hp1, f)
         IN [hp |-> hp1,
             f |-> [f1 EXCEPT !.reader = ReaderSeek(f1.reader, end, SeekStart).r],
             n |-> c.n, err |-> NoErr]

\* mapFsFile.WriteAt
FileWriteAt(hp, f, b, off) ==
    IF BitAnd(f.flag, O_APPEND) # 0
    THEN [hp |-> hp, f |-> f, n |-> 0, err |-> ErrAppend]
    ELSE IF ~CanWrite(f) THEN [hp |-> hp, f |-> f, n |-> 0, err |-> EBADF]
    ELSE IF off < 0 THEN [hp |-> hp, f |-> f, n |-> 0, err |-> ErrNegOffset]
    ELSE LET end == off + Len(b)
             c == CopyAt(Expand(hp[f.mfile].Data, end), off, b)
             hp1 == [hp EXCEPT ![f.mfile].Data = c.data]
         IN [hp |-> hp1, f |-> FileReset(hp1, f), n |-> c.n, err |-> NoErr]

\* Truncate that moves a cursor beyond the new length back to it
FileTruncateClamp(hp, f, size) ==
    IF ~CanWrite(f) THEN [hp |-> hp, f |-> f, err |-> EINVAL]
    ELSE IF size < 0 THEN [hp |-> hp, f |-> f, err |-> NoErr]
    ELSE LET curr == Len(hp[f.mfile].Data)
             hp1 == [hp EXCEPT ![f.mfile].Data =
                        IF size > curr THEN @ \o Zeros(size - curr)
                        ELSE SubSeq(@, 1, size)]
             f1 == FileReset(hp1, f)
         IN [hp |-> hp1,
             f |-> [f1 EXCEPT !.reader.i = Min(@, size)],
             err |-> NoErr]

\* mapFsFile.Truncate
FileTruncate(hp, f, size) ==
    IF ~CanWrite(f) THEN [hp |-> hp, f |-> f, err |-> EINVAL]
    ELSE IF size < 0 THEN [hp |-> hp, f |-> f, err |-> NoErr]
    ELSE LET curr == Len(hp[f.mfile].Data)
             hp1 == [hp EXCEPT ![f.mfile].Data =
                        IF size > curr THEN @ \o Zeros(size - curr)
                        ELSE SubSeq(@, 1, size)]
         IN [hp |-> hp1, f |-> FileReset(hp1, f), err |-> NoErr]

----------------------------------------------------------------------------
(* mapFs.OpenFile and the helpers built on it *)

\* f.MapFS[name] = rec
Put(fs, name, rec) ==
    [k \in DOMAIN fs \cup {name} |-> IF k = name THEN rec ELSE fs[k]]

\* the one element of a one-element set: The({F(x) : x \in {e}}) is F(e)
\* with e evaluated once
The(S) == CHOOSE x \in S : TRUE

\* OpenOrCreate creating the missing file whatever the flags
OpenOrCreateAlways(fs, hp, new, name, flag, perm) ==
    LET o1 == MapOpen(fs, hp, name)
    IN IF o1.err = ErrNotExist /\ new # Nil
       THEN LET fs1 == Put(fs, name, new)
                hp1 == [hp EXCEPT ![new] = [Mode |-> perm, Data |-> <<>>]]
            IN [fs |-> fs1, hp |-> hp1, o |-> MapOpen(fs1, hp1, name)]
       ELSE [fs |-> fs, hp |-> hp, o |-> o1]

\* OpenOrCreate giving the mode perm to a file that exists as well
OpenOrCreateChmod(fs, hp, new, name, flag, perm) ==
    LET o1 == MapOpen(fs, hp, name)
    IN IF o1.err = ErrNotExist /\ BitAnd(flag, O_CREATE) # 0
       THEN LET fs1 == Put(fs, name, new)
                hp1 == [hp EXCEPT ![new] = [Mode |-> perm, Data |-> <<>>]]
            IN [fs |-> fs1, hp |-> hp1, o |-> MapOpen(fs1, hp1, name)]
       ELSE IF o1.err = NoErr /\ name \in DOMAIN fs /\ ~IsDir(o1.mode)
       THEN LET hp1 == [hp EXCEPT ![fs[name]].Mode = perm]
            IN [fs |-> fs, hp |-> hp1, o |-> MapOpen(fs, hp1, name)]
       ELSE [fs |-> fs, hp |-> hp, o |-> o1]

\* mapFs.OpenFile up to its second f.Open(name): the file is created when
\* it does not exist and O_CREATE is set; o is what the last Open returned
OpenOrCreate(fs, hp, new, name, flag, perm) ==
    LET o1 == MapOpen(fs, hp, name)
    IN IF o1.err = ErrNotExist /\ BitAnd(flag, O_CREATE) # 0
       THEN LET fs1 == Put(fs, name, new)
                hp1 == [hp EXCEPT ![new] = [Mode |-> perm, Data |-> <<>>]]
            IN [fs |-> fs1, hp |-> hp1, o |-> MapOpen(fs1, hp1, name)]
       ELSE [fs |-> fs, hp |-> hp, o |-> o1]

\* OpenHandle without its O_TRUNC step
OpenHandleNoTrunc(c, f0, flag) ==
    [fs |-> c.fs, hp |-> c.hp,
     f |-> IF BitAnd(flag, O_APPEND) # 0 THEN FileSeek(f0, 0, SeekEnd).f ELSE f0,
     err |-> NoErr]

\* the handle OpenFile builds, then "truncate file if O_TRUNC flag is present"
\* and "move file cursor to end if O_APPEND flag is present"
OpenHandle(c, f0, flag) ==
    LET t == IF BitAnd(flag, O_TRUNC) # 0
             THEN FileTruncate(c.hp, f0, 0)
             ELSE [hp |-> c.hp, f |-> f0, err |-> NoErr]
    IN [fs |-> c.fs, hp |-> t.hp,
        f |-> IF BitAnd(flag, O_APPEND) # 0
              THEN FileSeek(t.f, 0, SeekEnd).f
              ELSE t.f,
        err |-> NoErr]

\* mapFs.OpenFile after the file was opened or created (c)
OpenFrom(c, name, flag) ==
    IF c.o.err # NoErr
    THEN [fs |-> c.fs, hp |-> c.hp, f |-> Closed, err |-> c.o.err]
    ELSE IF IsDir(c.o.mode) /\ BitAnd(flag, BitOr(O_WRONLY, O_RDWR)) # 0
    THEN [fs |-> c.fs, hp |-> c.hp, f |-> Closed, err |-> EISDIR]
    ELSE The({OpenHandle(c, f0, flag) :
                f0 \in {[open |-> TRUE, name |-> name, flag |-> flag,
                         perm |-> c.o.mode, mfile |-> c.o.rec,
                         reader |-> [s |-> c.o.data, i |-> 0]]}})

\* mapFs.OpenFile; new is the reference a MapFile created here gets.
\* fs, hp: the table and the records afterwards; f: the handle returned.
OpenFileOn(fs, hp, new, name, flag, perm) ==
    The({OpenFrom(c, name, flag) :
            c \in {OpenOrCreate(fs, hp, new, name, flag, perm)}})

\* whether OpenFile would create a MapFile for name
Creates(fs, hp, name, flag) ==
    MapOpen(fs, hp, name).err = ErrNotExist /\ BitAnd(flag, O_CREATE) # 0

\* WriteFile after its OpenFile returned o: the Write, then Close (which
\* does nothing to a MapFS file)
WriteFileWith(o, data) ==
    IF o.err # NoErr THEN [fs |-> o.fs, hp |-> o.hp, err |-> o.err]
    ELSE LET w == FileWrite(o.hp, o.f, data)
         IN [fs |-> o.fs, hp |-> w.hp, err |-> w.err]

\* wfs.WriteFile: open for writing with create and truncate, write, close
WriteFileOn(fs, hp, new, name, data, perm) ==
    LET flag == BitOr(O_WRONLY, BitOr(O_CREATE, O_TRUNC))
    IN The({WriteFileWith(o, data) :
                o \in {OpenFileOn(fs, hp, new, name, flag, perm)}})

----------------------------------------------------------------------------
(* mapFs.Rename, Remove, RemoveAll, Mkdir, MkdirAll *)

\* delete(f.MapFS, name)
Del(fs, name) == [k \in DOMAIN fs \ {name} |-> fs[k]]

\* f.MapFS[name], nil when there is no entry
Entry(fs, name) == IF name \in DOMAIN fs THEN fs[name] ELSE Nil

\* strings.Replace(name, oldpath, newpath, 1) for a name that has oldpath
\* as a prefix
ReplacePrefix(name, oldpath, newpath) ==
    newpath \o SubSeq(name, Len(oldpath) + 1, Len(name))

\* one round of Rename's loop on a name that has oldpath as a prefix
RenameMove(fs, oldpath, newpath, name) ==
    Del(Put(fs, ReplacePrefix(name, oldpath, newpath), fs[name]), name)

\* Rename's loop "for name := range f.MapFS": the tables it can end with.
\* pending: the entries of the table before the loop that have oldpath as a
\* prefix and were not reached yet; fresh: the entries the loop created,
\* each of which the iteration may produce or skip (the Go specification
\* leaves it open).  An entry the loop created is looked at only while the
\* name it would move to is no longer than MaxPath.
RECURSIVE RenameLoop(_, _, _, _, _)
RenameLoop(fs, oldpath, newpath, pending, fresh) ==
    LET P == pending \cap DOMAIN fs
        F == {k \in fresh \cap DOMAIN fs :
                 Len(ReplacePrefix(k, oldpath, newpath)) <= MaxPath}
        made(k) == LET nn == ReplacePrefix(k, oldpath, newpath)
                   IN IF nn \notin DOMAIN fs /\ HasPrefix(nn, oldpath)
                      THEN {nn} ELSE {}
    IN (IF P = {} THEN {fs} ELSE {})
       \cup UNION {RenameLoop(RenameMove(fs, oldpath, newpath, k), oldpath, newpath,
                              P \ {k}, (F \ {k}) \cup made(k)) : k \in P \cup F}

\* mapFs.Rename: the error and the tables it can leave
RenameOn(fs, hp, oldpath, newpath) ==
    LET oldinfo == Stat(fs, hp, oldpath)
        newinfo == Stat(fs, hp, newpath)
        dir == SplitDir(newpath)
        dirinfo == Stat(fs, hp, dir)
        under == {k \in DOMAIN fs : HasPrefix(k, oldpath)}
        fail(e) == {[fs |-> fs, err |-> e]}
    IN IF oldinfo.err # NoErr THEN fail(oldinfo.err)
       ELSE IF oldpath = newpath THEN fail(EEXIST)
       ELSE IF newinfo.err = NoErr /\ newinfo.isDir THEN fail(EEXIST)
       ELSE IF dir # <<>> /\ dirinfo.err # NoErr THEN fail(ENOENT)
       ELSE IF dir # <<>> /\ ~dirinfo.isDir THEN fail(ENOTDIR)
       ELSE IF oldinfo.isDir /\ under # {}
       THEN {[fs |-> t, err |-> NoErr] :
                t \in RenameLoop(fs, oldpath, newpath, under, {})}
       ELSE {[fs |-> Del(Put(fs, newpath, Entry(fs, oldpath)), oldpath),
              err |-> NoErr]}

\* fs.ReadDir(f, name) returns entries: name opens as a directory and the
\* table has entries under it
HasEntries(fs, hp, name) ==
    LET o == MapOpen(fs, hp, name)
    IN /\ o.err = NoErr
       /\ IsDir(o.mode)
       /\ IF name = <<".">> THEN DOMAIN fs \ {name} # {} ELSE HasChildren(fs, name)

\* mapFs.Remove
RemoveOn(fs, hp, name) ==
    IF name \notin DOMAIN fs THEN [fs |-> fs, err |-> ENOENT]
    ELSE IF HasEntries(fs, hp, name) THEN [fs |-> fs, err |-> ENOTEMPTY]
    ELSE [fs |-> Del(fs, name), err |-> NoErr]

\* RemoveAll that deletes the entries under path and keeps the entry of
\* path itself
RemoveAllUnder(fs, path) ==
    [fs |-> [k \in {n \in DOMAIN fs : ~HasPrefix(n, path \o <<Slash>>)} |-> fs[k]],
     err |-> NoErr]

\* mapFs.RemoveAll
RemoveAllOn(fs, path) ==
    [fs |-> [k \in {n \in DOMAIN fs : ~HasPrefix(n, path)} |-> fs[k]],
     err |-> NoErr]

\* f.MapFS[name] = &fstest.MapFile{Mode: perm}
PutNew(fs, hp, new, name, perm) ==
    [fs |-> Put(fs, name, new),
     hp |-> [hp EXCEPT ![new] = [Mode |-> perm, Data |-> <<>>]],
     err |-> NoErr]

\* mapFs.Mkdir; new is the reference the MapFile it makes gets
MkdirOn(fs, hp, new, name, perm) ==
    LET dir == SplitDir(name)
        info == Stat(fs, hp, dir)
    IN IF dir # <<>> /\ info.err # NoErr THEN [fs |-> fs, hp |-> hp, err |-> ENOENT]
       ELSE IF dir # <<>> /\ ~info.isDir THEN [fs |-> fs, hp |-> hp, err |-> ENOTDIR]
       ELSE PutNew(fs, hp, new, name, perm)

\* mapFs.MkdirAll
MkdirAllOn(fs, hp, new, name, perm) ==
    LET info == Stat(fs, hp, SplitDir(name))
    IN IF info.err # NoErr THEN PutNew(fs, hp, new, name, perm)
       ELSE IF ~info.isDir THEN [fs |-> fs, hp |-> hp, err |-> ENOTDIR]
       ELSE [fs |-> fs, hp |-> hp, err |-> NoErr]

----------------------------------------------------------------------------
(* The calls a program makes, one action each *)

PathF == <<"f">>
PathD == <<"d">>
PathG == <<"d", "/", "g">>

\* 0644, the permission argument of the calls
Perm644 == FileMode(FALSE, 420)
\* 0755, the mode of the files and directories a program starts with
Perm755 == FileMode(FALSE, 493)
\* 0666, the permission Create passes
CreatePerm == FileMode(FALSE, 438)

\* what name is before a call: nothing, a regular file or a directory
Kind(fs, hp, name) ==
    LET st == Stat(fs, hp, name)
    IN IF st.err # NoErr THEN "none" ELSE IF st.isDir THEN "dir" ELSE "file"

\* What last records of a call: the operation, the handle, the name (and
\* the new name of a Rename, to), the flags (of an open), the mode handed
\* to an open, Mkdir or MkdirAll (perm), the number handed in (off: an offset, a
\* size or a buffer length), the bytes a call that succeeded took (arg), the
\* results, and of the state before the call the cursor (pos), the length
\* of the record (size) and what the name was (pre).
Call(op, h) ==
    [op |-> op, h |-> h, name |-> <<>>, to |-> <<>>, flag |-> 0,
     perm |-> FileMode(FALSE, 0), off |-> 0, arg |-> <<>>, err |-> NoErr,
     n |-> 0, out |-> <<>>, pos |-> 0, size |-> 0, pre |-> "none"]

\* a call on the open handle h
CallOn(op, h) ==
    [Call(op, h) EXCEPT !.pos = hs[h].reader.i,
                        !.size = IF hs[h].mfile = Nil THEN 0
                                 ELSE Len(heap[hs[h].mfile].Data)]

\* a call on name
CallAt(op, h, name) ==
    [Call(op, h) EXCEPT !.name = name,
                        !.pre = Kind(fsys, heap, name),
                        !.size = Stat(fsys, heap, name).size]

InitData == UNION {[1..n -> Byte] : n \in 0..MaxLen}

\* the records stay within the lengths explored
InBounds(hp, h) ==
    /\ \A r \in RecIds : Len(hp[r].Data) <= MaxLen
    /\ \A x \in DOMAIN h : h[x].reader.i <= MaxLen

\* no handle is open on the record of name: one writer at a time per path
Unshared(name) ==
    \A h \in DOMAIN hs :
        (hs[h].open /\ name \in DOMAIN fsys) => hs[h].mfile # fsys[name]

\* What the reader of another handle on the record shows after a call
\* changed the record's bytes from old to new in place: the bytes that
\* changed within its length, when it shares the record's backing array
\* (reset hands f.mfile.Data to the reader; copy and an append within the
\* capacity write into that array)
Share(s, old, new) ==
    [p \in 1..Len(s) |->
        IF p <= Len(new) /\ (p > Len(old) \/ new[p] # old[p]) THEN new[p]
        ELSE s[p]]

\* The handles after a call on h left h as f and took the records from hp
\* to hp1.  Whether the reader of another handle on the same record shares
\* the backing array depends on capacities the program does not control (an
\* append beyond the capacity moves the record to a new array, and the
\* reader of a handle as opened holds a copy made by io.ReadAll): both
\* outcomes are possible.  With one handle there is one outcome.
Seen(h, f, hp, hp1) ==
    LET m == hs[h].mfile
        base == [hs EXCEPT ![h] = f]
        shared == [g \in DOMAIN hs |->
                     IF g # h /\ hs[g].open /\ m # Nil /\ hs[g].mfile = m
                     THEN [hs[g] EXCEPT !.reader.s =
                              Share(@, hp[m].Data, hp1[m].Data)]
                     ELSE base[g]]
    IN {base, shared}

OpenFile(h, name, flag, perm) ==
    /\ ~hs[h].open
    /\ Creates(fsys, heap, name, flag) => NewRec(fsys, hs) # Nil
    /\ \E o \in {OpenFileOn(fsys, heap, NewRec(fsys, hs), name, flag, perm)} :
          /\ fsys' = o.fs
          /\ hs' = [hs EXCEPT ![h] = o.f]
          /\ heap' = Collect(fsys', o.hp, hs')
          /\ last' = [CallAt("OpenFile", h, name) EXCEPT
                         !.flag = flag, !.perm = perm, !.err = o.err]

\* wfs.Create
Create(h, name) ==
    LET flag == BitOr(O_RDWR, BitOr(O_CREATE, O_TRUNC))
    IN /\ ~hs[h].open
       /\ Creates(fsys, heap, name, flag) => NewRec(fsys, hs) # Nil
       /\ \E o \in {OpenFileOn(fsys, heap, NewRec(fsys, hs), name, flag, CreatePerm)} :
             /\ fsys' = o.fs
             /\ hs' = [hs EXCEPT ![h] = o.f]
             /\ heap' = Collect(fsys', o.hp, hs')
             /\ last' = [CallAt("Create", h, name) EXCEPT
                            !.flag = flag, !.perm = CreatePerm, !.err = o.err]

WriteFile(name, data, perm) ==
    LET flag == BitOr(O_WRONLY, BitOr(O_CREATE, O_TRUNC))
    IN /\ Unshared(name)
       /\ Creates(fsys, heap, name, flag) => NewRec(fsys, hs) # Nil
       /\ \E w \in {WriteFileOn(fsys, heap, NewRec(fsys, hs), name, data, perm)} :
             /\ fsys' = w.fs
             /\ heap' = Collect(fsys', w.hp, hs)
             /\ InBounds(heap', hs)
             /\ last' = [CallAt("WriteFile", NoHandle, name) EXCEPT
                            !.flag = flag, !.perm = perm, !.off = Len(data),
                            !.err = w.err,
                            !.arg = IF w.err = NoErr THEN data ELSE <<>>]
             /\ UNCHANGED hs

\* fs.File.Close of the handle; the caller drops it
Close(h) ==
    /\ hs[h].open
    /\ hs' = [hs EXCEPT ![h] = Closed]
    /\ heap' = Collect(fsys, heap, hs')
    /\ last' = CallOn("Close", h)
    /\ UNCHANGED fsys

Read(h, len) ==
    /\ hs[h].open
    /\ \E r \in {FileRead(hs[h], len)} :
          /\ hs' = [hs EXCEPT ![h] = r.f]
          /\ last' = [CallOn("Read", h) EXCEPT !.off = len, !.err = r.err,
                                               !.n = r.n, !.out = r.out]
    /\ UNCHANGED <<fsys, heap>>

ReadAt(h, len, off) ==
    /\ hs[h].open
    /\ \E r \in {FileReadAt(hs[h], len, off)} :
          /\ hs' = [hs EXCEPT ![h] = r.f]
          /\ last' = [CallOn("ReadAt", h) EXCEPT !.off = off, !.err = r.err,
                                                 !.n = r.n, !.out = r.out]
    /\ UNCHANGED <<fsys, heap>>

Seek(h, off, whence) ==
    /\ hs[h].open
    /\ \E r \in {FileSeek(hs[h], off, whence)} :
          /\ hs' = [hs EXCEPT ![h] = r.f]
          /\ InBounds(heap, hs')
          /\ last' = [CallOn("Seek", h) EXCEPT !.off = off, !.err = r.err, !.n = r.n]
    /\ UNCHANGED <<fsys, heap>>

Write(h, b) ==
    /\ hs[h].open
    /\ \E r \in {FileWrite(heap, hs[h], b)} :
          /\ hs' \in Seen(h, r.f, heap, r.hp)
          /\ heap' = r.hp
          /\ InBounds(heap', hs')
          /\ last' = [CallOn("Write", h) EXCEPT !.off = Len(b), !.err = r.err,
                                                !.n = r.n,
                                                !.arg = IF r.err = NoErr THEN b ELSE <<>>]
    /\ UNCHANGED fsys

WriteAt(h, b, off) ==
    /\ hs[h].open
    /\ \E r \in {FileWriteAt(heap, hs[h], b, off)} :
          /\ hs' \in Seen(h, r.f, heap, r.hp)
          /\ heap' = r.hp
          /\ InBounds(heap', hs')
          /\ last' = [CallOn("WriteAt", h) EXCEPT !.off = off, !.err = r.err,
                                                  !.n = r.n,
                                                  !.arg = IF r.err = NoErr THEN b ELSE <<>>]
    /\ UNCHANGED fsys

Truncate(h, size) ==
    /\ hs[h].open
    /\ \E r \in {FileTruncate(heap, hs[h], size)} :
          /\ hs' \in Seen(h, r.f, heap, r.hp)
          /\ heap' = r.hp
          /\ last' = [CallOn("Truncate", h) EXCEPT !.off = size, !.err = r.err]
    /\ UNCHANGED fsys

\* the path table stays within the path lengths explored
PathsInBounds(fs) == \A k \in DOMAIN fs : Len(k) <= MaxPath

Rename(oldpath, newpath) ==
    /\ \E r \in RenameOn(fsys, heap, oldpath, newpath) :
          /\ fsys' = r.fs
          /\ PathsInBounds(fsys')
          /\ heap' = Collect(fsys', heap, hs)
          /\ last' = [CallAt("Rename", NoHandle, oldpath) EXCEPT
                         !.to = newpath, !.err = r.err]
    /\ UNCHANGED hs

Remove(name) ==
    /\ \E r \in {RemoveOn(fsys, heap, name)} :
          /\ fsys' = r.fs
          /\ heap' = Collect(fsys', heap, hs)
          /\ last' = [CallAt("Remove", NoHandle, name) EXCEPT !.err = r.err]
    /\ UNCHANGED hs

RemoveAll(path) ==
    /\ \E r \in {RemoveAllOn(fsys, path)} :
          /\ fsys' = r.fs
          /\ heap' = Collect(fsys', heap, hs)
          /\ last' = [CallAt("RemoveAll", NoHandle, path) EXCEPT !.err = r.err]
    /\ UNCHANGED hs

Mkdir(name, perm) ==
    /\ NewRec(fsys, hs) # Nil
    /\ \E r \in {MkdirOn(fsys, heap, NewRec(fsys, hs), name, perm)} :
          /\ fsys' = r.fs
          /\ heap' = Collect(fsys', r.hp, hs)
          /\ last' = [CallAt("Mkdir", NoHandle, name) EXCEPT
                         !.perm = perm, !.err = r.err]
    /\ UNCHANGED hs

MkdirAll(name, perm) ==
    /\ NewRec(fsys, hs) # Nil
    /\ \E r \in {MkdirAllOn(fsys, heap, NewRec(fsys, hs), name, perm)} :
          /\ fsys' = r.fs
          /\ heap' = Collect(fsys', r.hp, hs)
          /\ last' = [CallAt("MkdirAll", NoHandle, name) EXCEPT
                         !.perm = perm, !.err = r.err]
    /\ UNCHANGED hs

----------------------------------------------------------------------------
(* Spec: one handle at a time, on the regular file "f" or the directory   *)
(* "d", and every call of the handle.  The flags are the access modes with *)
(* and without O_APPEND, and O_RDONLY|O_CREATE; O_TRUNC and O_CREATE act   *)
(* at open only.                                                           *)

FileFlags ==
    {BitOr(a, p) : a \in AccessModes, p \in {0, O_APPEND}} \cup {BitOr(O_RDONLY, O_CREATE)}

Init ==
    \E data \in InitData :
        /\ fsys = [k \in {PathF, PathD} |-> IF k = PathF THEN 1 ELSE 2]
        /\ heap = [r \in RecIds |->
                     IF r = 1 THEN [Mode |-> Perm755, Data |-> data]
                     ELSE IF r = 2 THEN [Mode |-> FileMode(TRUE, 493), Data |-> <<>>]
                     ELSE NoFile]
        /\ hs = [h \in Handles |-> Closed]
        /\ last = Call("init", NoHandle)

Next ==
    \/ \E h \in Handles, name \in {PathF, PathD}, flag \in FileFlags :
            OpenFile(h, name, flag, Perm644)
    \/ \E h \in Handles : Close(h)
    \/ \E h \in Handles, len \in 0..MaxBuf : Read(h, len)
    \/ \E h \in Handles, len \in 0..MaxBuf, off \in -1..(MaxLen + 1) : ReadAt(h, len, off)
    \/ \E h \in Handles, off \in -1..MaxLen,
          whence \in {SeekStart, SeekCurrent, SeekEnd} : Seek(h, off, whence)
    \/ \E h \in Handles, b \in Bufs : Write(h, b)
    \/ \E h \in Handles, b \in Bufs, off \in -1..MaxLen : WriteAt(h, b, off)
    \/ \E h \in Handles, size \in -1..MaxLen : Truncate(h, size)

Spec == Init /\ [][Next]_vars

----------------------------------------------------------------------------
(* SpecOpen: every combination of open flags, on a name that is a regular *)
(* file or nothing, or a directory (with an entry of its own or only       *)
(* through an entry under it), with the first Read or Write on the handle, *)
(* and the helpers Create and WriteFile.                                   *)

\* the names handed to OpenFile, Create and WriteFile
Names == {PathF, PathD}

\* the table with the file "f" or without it, and the directory "d" with
\* an entry of its own or only through the entry "d/g" under it
Tables ==
    {[f |-> f, d |-> d] : f \in {"none", "file"}, d \in {"implied", "explicit"}}

InitOpen ==
    \E t \in Tables, data \in InitData :
        /\ fsys = [k \in (IF t.f = "file" THEN {PathF} ELSE {})
                         \cup (IF t.d = "implied" THEN {PathG} ELSE {})
                         \cup (IF t.d = "explicit" THEN {PathD} ELSE {})
                     |-> IF k = PathF THEN 1 ELSE 2]
        /\ heap = [r \in RecIds |->
                     IF r = 1 /\ t.f = "file" THEN [Mode |-> Perm755, Data |-> data]
                     ELSE IF r = 2 /\ t.d = "explicit"
                     THEN [Mode |-> FileMode(TRUE, 493), Data |-> <<>>]
                     ELSE NoFile]
        /\ hs = [h \in Handles |-> Closed]
        /\ last = Call("init", NoHandle)

\* the first call on a handle: the call before it was the open
JustOpened(h) == last.op \in {"OpenFile", "Create"} /\ last.h = h /\ hs[h].open

NextOpen ==
    \/ \E h \in Handles, name \in Names, flag \in Flags : OpenFile(h, name, flag, Perm644)
    \/ \E h \in Handles, name \in Names : Create(h, name)
    \/ \E name \in Names, data \in Bufs : WriteFile(name, data, Perm644)
    \/ \E h \in Handles : Close(h)
    \/ \E h \in Handles, len \in 0..MaxBuf : JustOpened(h) /\ Read(h, len)
    \/ \E h \in Handles, b \in Bufs : JustOpened(h) /\ Write(h, b)

SpecOpen == InitOpen /\ [][NextOpen]_vars

----------------------------------------------------------------------------
(* SpecFS: the calls that move and delete entries of the path table       *)
(* (Rename, Remove, RemoveAll), and SpecDir: the calls that make           *)
(* directories (Mkdir, MkdirAll, with Remove), on the file "f", the        *)
(* directory "d", the file "d/g" under it, the name "dd" that has "d" as a *)
(* string prefix, "f/g" (under a regular file) and the root ".".  No       *)
(* handle is open.                                                         *)

PathDD == <<"d", "d">>
PathFG == <<"f", "/", "g">>
Root == <<".">>

\* the names handed to the calls
FSNames == {PathF, PathD, PathG, PathDD, PathFG}

\* 0755 and fs.ModeDir|0755, the modes handed to Mkdir and MkdirAll
MkdirPerms == {Perm755, FileMode(TRUE, 493)}

\* the tables a program starts with: the file "f" or not, the directory "d"
\* with an entry of its own or not, the file "d/g" or not
FSTables == [f : BOOLEAN, d : BOOLEAN, g : BOOLEAN]

InitFS ==
    \E t \in FSTables :
        /\ fsys = [k \in (IF t.f THEN {PathF} ELSE {})
                         \cup (IF t.d THEN {PathD} ELSE {})
                         \cup (IF t.g THEN {PathG} ELSE {})
                     |-> IF k = PathF THEN 1 ELSE IF k = PathD THEN 2 ELSE 3]
        /\ heap = [r \in RecIds |->
                     IF r = 1 /\ t.f THEN [Mode |-> Perm755, Data |-> <<>>]
                     ELSE IF r = 2 /\ t.d
                     THEN [Mode |-> FileMode(TRUE, 493), Data |-> <<>>]
                     ELSE IF r = 3 /\ t.g THEN [Mode |-> Perm644, Data |-> <<>>]
                     ELSE NoFile]
        /\ hs = [h \in Handles |-> Closed]
        /\ last = Call("init", NoHandle)

NextFS ==
    \/ \E oldpath \in FSNames, newpath \in FSNames : Rename(oldpath, newpath)
    \/ \E name \in FSNames \cup {Root} : Remove(name)
    \/ \E path \in FSNames \cup {Root} : RemoveAll(path)

SpecFS == InitFS /\ [][NextFS]_vars

\* the names handed to Mkdir and MkdirAll
DirNames == {PathF, PathD, PathG, PathFG}

NextDir ==
    \/ \E name \in DirNames, perm \in MkdirPerms : Mkdir(name, perm)
    \/ \E name \in DirNames, perm \in MkdirPerms : MkdirAll(name, perm)
    \/ \E name \in DirNames : Remove(name)

SpecDir == InitFS /\ [][NextDir]_vars

----------------------------------------------------------------------------
(* SpecErr: the calls of the façade that can return an error (OpenFile,   *)
(* Stat, Rename, Remove, Mkdir, MkdirAll), on "f", "d" and on "d/", which  *)
(* fs.ValidPath rejects.                                                   *)

\* "d/": not a valid path, the last element is empty
PathBad == <<"d", "/">>

ErrNames == {PathF, PathD, PathBad}

\* read-only and write-only, with O_CREATE and without
ErrFlags == {BitOr(a, c) : a \in {O_RDONLY, O_WRONLY}, c \in {0, O_CREATE}}

\* mapFs.Stat as a call
StatCall(name) ==
    /\ last' = [CallAt("Stat", NoHandle, name) EXCEPT
                   !.err = Stat(fsys, heap, name).err]
    /\ UNCHANGED <<fsys, heap, hs>>

NextErr ==
    \/ \E h \in Handles, name \in ErrNames, flag \in ErrFlags :
            OpenFile(h, name, flag, Perm644)
    \/ \E h \in Handles : Close(h)
    \/ \E name \in ErrNames : StatCall(name)
    \/ \E oldpath \in ErrNames, newpath \in ErrNames : Rename(oldpath, newpath)
    \/ \E name \in ErrNames : Remove(name)
    \/ \E name \in ErrNames : Mkdir(name, Perm644)
    \/ \E name \in ErrNames : MkdirAll(name, Perm644)

SpecErr == InitFS /\ [][NextErr]_vars

----------------------------------------------------------------------------
(* SpecTwo: two write-capable handles, A and B, open on the file "f" at   *)
(* the same time, with their Write, WriteAt, Truncate and Read calls       *)
(* interleaved, each call running to completion.  Both hold the same       *)
(* *fstest.MapFile.                                                        *)

TwoHandles == {"A", "B"}

\* write-only and read-write
TwoFlags == {O_WRONLY, O_RDWR}

\* the longest content of "f" with two handles on it
TwoLen == 2

\* the buffers the two handles write: one byte
TwoBufs == {b \in Bufs : Len(b) = 1}

\* the record of "f" and the cursors stay within TwoLen
TwoInBounds(hp, h) ==
    /\ \A r \in RecIds : Len(hp[r].Data) <= TwoLen
    /\ \A x \in DOMAIN h : h[x].reader.i <= TwoLen

InitTwo ==
    /\ fsys = [k \in {PathF} |-> 1]
    /\ heap = [r \in RecIds |->
                 IF r = 1 THEN [Mode |-> Perm644, Data |-> <<>>] ELSE NoFile]
    /\ hs = [h \in TwoHandles |-> Closed]
    /\ last = Call("init", NoHandle)

NextTwo ==
    \/ \E h \in TwoHandles, flag \in TwoFlags : OpenFile(h, PathF, flag, Perm644)
    \/ \E h \in TwoHandles : Close(h)
    \/ \E h \in TwoHandles : Read(h, 1)
    \/ \E h \in TwoHandles, b \in TwoBufs :
            Write(h, b) /\ TwoInBounds(heap', hs')
    \/ \E h \in TwoHandles, b \in TwoBufs, off \in 0..(TwoLen - 1) :
            WriteAt(h, b, off) /\ TwoInBounds(heap', hs')
    \/ \E h \in TwoHandles, size \in 0..TwoLen : Truncate(h, size)

SpecTwo == InitTwo /\ [][NextTwo]_vars

----------------------------------------------------------------------------
(* Properties.  An action property speaks of one call: last' names the    *)
(* call of the step (operation, handle, name, flags, number handed in),    *)
(* the unprimed variables are the state before it, the primed ones the     *)
(* state after it.                                                         *)

\* the access mode of an open flag (the two low bits, O_ACCMODE)
AccessMode(flag) == BitAnd(flag, BitOr(O_WRONLY, O_RDWR))
ReadAccess(flag) == AccessMode(flag) \in {O_RDONLY, O_RDWR}
WriteAccess(flag) == AccessMode(flag) \in {O_WRONLY, O_RDWR}
HasFlag(flag, bit) == BitAnd(flag, bit) # 0

\* the bytes of the record the table has at name
DataAt(fs, hp, name) == hp[fs[name]].Data

\* a handle on a regular file reads the bytes of its record (one handle per
\* record, and WriteFile only on a record no handle is open on)
ReaderInSync ==
    \A h \in Handles :
        (hs[h].open /\ ~IsDir(hs[h].perm)) => hs[h].reader.s = heap[hs[h].mfile].Data

----------------------------------------------------------------------------
(* C1 *)

----------------------------------------------------------------------------
(* C2 *)

----------------------------------------------------------------------------
(* C3 *)

\* C3 as stated: whenever OpenFile succeeds on an existing regular file with
\* O_TRUNC set, whatever the access mode, the data of the record is empty
\* when the open returns.
C3_TruncOnOpen ==
    (/\ last.op = "OpenFile"
     /\ last.err = NoErr
     /\ last.pre = "file"
     /\ HasFlag(last.flag, O_TRUNC))
    => DataAt(fsys, heap, last.name) = <<>>

\* What the code does: O_TRUNC empties the record when the flags give write
\* access, and leaves it as it was when they do not.
C3_TruncNeedsWrite ==
    [][(/\ last'.op = "OpenFile"
        /\ last'.err = NoErr
        /\ last'.pre = "file"
        /\ HasFlag(last'.flag, O_TRUNC))
       => DataAt(fsys', heap', last'.name) =
             IF WriteAccess(last'.flag) THEN <<>>
             ELSE DataAt(fsys, heap, last'.name)]_vars

----------------------------------------------------------------------------
(* C4 *)

\* C4: a handle opened with write access and O_APPEND on a file whose data
\* is D has its cursor at len(D) when the open returns (D being empty when
\* O_TRUNC was set too), so that the first Write(b) on it leaves the record
\* equal to D followed by b and returns len(b).
C4_AppendOpen ==
    [][/\ (/\ last'.op = "OpenFile"
           /\ last'.err = NoErr
           /\ WriteAccess(last'.flag)
           /\ HasFlag(last'.flag, O_APPEND))
          => LET f == hs'[last'.h]
             IN /\ f.reader.i = Len(heap'[f.mfile].Data)
                /\ (last'.pre = "file" /\ ~HasFlag(last'.flag, O_TRUNC))
                      => heap'[f.mfile].Data = DataAt(fsys, heap, last'.name)
                /\ (last'.pre = "none" \/ HasFlag(last'.flag, O_TRUNC))
                      => heap'[f.mfile].Data = <<>>
       /\ (/\ last'.op = "Write"
           /\ JustOpened(last'.h)
           /\ WriteAccess(hs[last'.h].flag)
           /\ HasFlag(hs[last'.h].flag, O_APPEND))
          => LET m == hs[last'.h].mfile
             IN /\ last'.err = NoErr
                /\ last'.n = Len(last'.arg)
                /\ heap'[m].Data = heap[m].Data \o last'.arg]_vars

\* the first Write on an O_APPEND handle went behind the bytes of a file
C4_Witness ==
    /\ last.op = "Write"
    /\ hs[last.h].open
    /\ HasFlag(hs[last.h].flag, O_APPEND)
    /\ last.err = NoErr
    /\ last.size > 0
    /\ last.pos = last.size
    /\ last.n > 0
    /\ Len(heap[hs[last.h].mfile].Data) = last.size + last.n

----------------------------------------------------------------------------
(* C5 *)

\* C5 as stated: Read on a handle of a regular file fails with EBADF exactly
\* when the handle was opened write-only; with access mode read-only or
\* read-write, whatever of O_CREATE, O_APPEND and O_TRUNC is added, Read
\* does not fail with EBADF.
C5_ReadAccess ==
    (/\ last.op = "Read"
     /\ hs[last.h].open
     /\ ~IsDir(hs[last.h].perm))
    => ((last.err = EBADF) <=> (AccessMode(hs[last.h].flag) = O_WRONLY))

\* What the code does: Read fails with EBADF exactly when the flags are not
\* zero and have no O_RDWR bit, which is so for every read-only handle
\* opened with one of O_CREATE, O_APPEND, O_TRUNC.
C5_ReadCheck ==
    (/\ last.op = "Read"
     /\ hs[last.h].open
     /\ ~IsDir(hs[last.h].perm))
    => ((last.err = EBADF)
           <=> (hs[last.h].flag # 0 /\ ~HasFlag(hs[last.h].flag, O_RDWR)))

----------------------------------------------------------------------------
(* C6 *)

\* C6: on a handle opened without write access (access mode read-only),
\* Write, WriteAt and Truncate each return an error, and the data of the
\* record, the cursor of the handle and the rest of the path table are as
\* they were before the call.
C6_ReadOnlyRejects ==
    [][(/\ last'.op \in {"Write", "WriteAt", "Truncate"}
        /\ AccessMode(hs[last'.h].flag) = O_RDONLY)
       => /\ last'.err # NoErr
          /\ last'.n = 0
          /\ UNCHANGED <<fsys, heap, hs>>]_vars

\* Truncate to nothing was refused on a read-only handle of a file with bytes
C6_Witness ==
    /\ last.op = "Truncate"
    /\ last.off = 0
    /\ last.err = EINVAL
    /\ hs[last.h].open
    /\ ~IsDir(hs[last.h].perm)
    /\ AccessMode(hs[last.h].flag) = O_RDONLY
    /\ Len(heap[hs[last.h].mfile].Data) > 0

----------------------------------------------------------------------------
(* C7 *)

\* the bytes of D with b laid over them from offset off on, the gap between
\* the end of D and off filled with zero bytes
Overlay(D, b, off) ==
    [k \in 1..Max(Len(D), off + Len(b)) |->
        IF k > off /\ k <= off + Len(b) THEN b[k - off]
        ELSE IF k <= Len(D) THEN D[k]
        ELSE 0]

\* C7: Write(b) on a write-capable handle with cursor c on a record with
\* data D returns len(b) and no error; afterwards the record has length
\* max(len(D), c + len(b)), holds b at offsets c .. c+len(b)-1, the bytes of
\* D everywhere else below len(D) and zero bytes in a gap between len(D)
\* and c (a cursor beyond the end is allowed), and the cursor is c + len(b).
C7_WriteAtCursor ==
    [][(last'.op = "Write" /\ WriteAccess(hs[last'.h].flag))
       => LET h == last'.h
              m == hs[h].mfile
              c == hs[h].reader.i
              D == heap[m].Data
              b == last'.arg
          IN /\ last'.err = NoErr
             /\ last'.n = Len(b)
             /\ Len(heap'[m].Data) = Max(Len(D), c + Len(b))
             /\ heap'[m].Data = Overlay(D, b, c)
             /\ hs'[h].reader.i = c + Len(b)
             /\ hs'[h].reader.s = heap'[m].Data
             /\ \A r \in RecIds \ {m} : heap'[r] = heap[r]
             /\ UNCHANGED fsys]_vars

\* a Write with the cursor beyond the end of a file that has bytes
C7_Witness ==
    /\ last.op = "Write"
    /\ last.err = NoErr
    /\ last.size > 0
    /\ last.pos > last.size
    /\ last.n > 0
    /\ Len(heap[hs[last.h].mfile].Data) = last.pos + last.n

----------------------------------------------------------------------------
(* C8 *)

\* "Hi" with "X" written at offset 5, and "Hello, World!" with "There"
\* written at offset 7, as byte values
WriteAtExamples ==
    /\ Overlay(<<72, 105>>, <<88>>, 5) = <<72, 105, 0, 0, 0, 88>>
    /\ CopyAt(Expand(<<72, 105>>, 6), 5, <<88>>).data = <<72, 105, 0, 0, 0, 88>>
    /\ CopyAt(Expand(<<72, 101, 108, 108, 111, 44, 32, 87, 111, 114, 108, 100, 33>>, 12),
              7, <<84, 104, 101, 114, 101>>).data
          = <<72, 101, 108, 108, 111, 44, 32, 84, 104, 101, 114, 101, 33>>

\* C8: WriteAt(b, off) with off >= 0 on a write-capable handle opened
\* without O_APPEND returns len(b) and no error, lays b over the data from
\* off on and leaves every other byte as it was, fills a gap between the
\* old end and off with zero bytes ("X" at offset 5 of a 2-byte file gives
\* 6 bytes; "There" at offset 7 of "Hello, World!" gives "Hello, There!"),
\* and leaves the cursor of the handle where it was.
C8_WriteAtOffset ==
    [][(/\ last'.op = "WriteAt"
        /\ WriteAccess(hs[last'.h].flag)
        /\ ~HasFlag(hs[last'.h].flag, O_APPEND)
        /\ last'.off >= 0)
       => LET h == last'.h
              m == hs[h].mfile
              D == heap[m].Data
              b == last'.arg
          IN /\ last'.err = NoErr
             /\ last'.n = Len(b)
             /\ heap'[m].Data = Overlay(D, b, last'.off)
             /\ hs'[h].reader.i = hs[h].reader.i
             /\ hs'[h].reader.s = heap'[m].Data
             /\ \A r \in RecIds \ {m} : heap'[r] = heap[r]
             /\ UNCHANGED fsys
             /\ WriteAtExamples]_vars

\* a WriteAt beyond the end of a file that has bytes, the cursor not at 0
C8_Witness ==
    /\ last.op = "WriteAt"
    /\ last.err = NoErr
    /\ last.size > 0
    /\ last.off > last.size
    /\ last.n > 0
    /\ last.pos > 0
    /\ hs[last.h].reader.i = last.pos
    /\ Len(heap[hs[last.h].mfile].Data) = last.off + last.n

----------------------------------------------------------------------------
(* C9 *)

\* C9: Truncate(N) with N >= 0 on a write-capable handle with data D leaves
\* the record equal to the first N bytes of D followed by zero bytes up to
\* length N (also when the record was shrunk before and grows again); a
\* negative N returns no error and changes nothing; in every case the
\* cursor stays where it was, even beyond the new length.
C9_Truncate ==
    [][(last'.op = "Truncate" /\ WriteAccess(hs[last'.h].flag))
       => LET h == last'.h
              m == hs[h].mfile
              D == heap[m].Data
              N == last'.off
          IN /\ last'.err = NoErr
             /\ hs'[h].reader.i = hs[h].reader.i
             /\ IF N < 0 THEN UNCHANGED <<fsys, heap, hs>>
                ELSE /\ heap'[m].Data =
                           [k \in 1..N |-> IF k <= Len(D) THEN D[k] ELSE 0]
                     /\ hs'[h].reader.s = heap'[m].Data
                     /\ \A r \in RecIds \ {m} : heap'[r] = heap[r]
                     /\ UNCHANGED fsys]_vars

\* a Truncate that cut a file to fewer bytes than the cursor had passed
C9_Witness ==
    /\ last.op = "Truncate"
    /\ last.err = NoErr
    /\ last.off >= 0
    /\ last.off < last.size
    /\ last.off < last.pos
    /\ hs[last.h].reader.i = last.pos
    /\ Len(heap[hs[last.h].mfile].Data) = last.off

----------------------------------------------------------------------------
(* C10 *)

\* C10 as stated: on a handle of a regular file opened with read access,
\* ReadAt(buf, off) fails with invalid-argument when off < 0 or off exceeds
\* the length of the data, and otherwise returns the bytes of the file from
\* off on; in every case the cursor and the record are as before the call.
C10_ReadAt ==
    [][\A len \in 0..MaxBuf :
          (/\ last'.op = "ReadAt"
           /\ ReadAt(last'.h, len, last'.off)
           /\ ~IsDir(hs[last'.h].perm)
           /\ ReadAccess(hs[last'.h].flag))
          => LET D == heap[hs[last'.h].mfile].Data
                 off == last'.off
             IN /\ IF off < 0 \/ off > Len(D)
                   THEN last'.err = ErrInvalid
                   ELSE /\ last'.err \in {NoErr, EOF}
                        /\ last'.out = SubSeq(D, off + 1, Min(Len(D), off + len))
                        /\ last'.n = Len(last'.out)
                /\ UNCHANGED <<fsys, heap, hs>>]_vars

\* What the code does: the same on the handles that pass the read check of
\* Read; on the others (read-only with O_CREATE, O_APPEND or O_TRUNC, and
\* write-only) ReadAt fails with EBADF.  The cursor and the record are as
\* before in every case.
C10_ReadAtChecked ==
    [][\A len \in 0..MaxBuf :
          (/\ last'.op = "ReadAt"
           /\ ReadAt(last'.h, len, last'.off)
           /\ ~IsDir(hs[last'.h].perm))
          => LET D == heap[hs[last'.h].mfile].Data
                 off == last'.off
             IN /\ IF ~CanRead(hs[last'.h]) THEN last'.err = EBADF
                   ELSE IF off < 0 \/ off > Len(D) THEN last'.err = ErrInvalid
                   ELSE /\ last'.err \in {NoErr, EOF}
                        /\ last'.out = SubSeq(D, off + 1, Min(Len(D), off + len))
                        /\ last'.n = Len(last'.out)
                /\ UNCHANGED <<fsys, heap, hs>>]_vars

----------------------------------------------------------------------------
(* C11 *)

\* io.ReadAll on the handle: Read after Read until one returns an error
RECURSIVE ReadToEnd(_)
ReadToEnd(f) ==
    LET r == FileRead(f, MaxBuf)
    IN IF r.err # NoErr THEN <<>> ELSE r.out \o ReadToEnd(r.f)

\* the position Seek(off, whence) asks for with the cursor at c on data D
SeekTarget(c, D, off, whence) ==
    CASE whence = SeekStart -> off
      [] whence = SeekCurrent -> c + off
      [] whence = SeekEnd -> Len(D) + off

----------------------------------------------------------------------------
(* C12 *)

\* the entries of the table under the directory name
Under(fs, name) == {k \in DOMAIN fs : HasPrefix(k, name \o <<Slash>>)}

\* name resolves through Stat
Resolves(fs, hp, name) == Stat(fs, hp, name).err = NoErr

\* C12 as stated: for every directory D with descendants and every target
\* D2 that passes Rename's checks (targets that have D as a string prefix
\* included), after Rename(D, D2) returns nil every record that was at D/x
\* is at exactly D2/x, moved once, and neither D nor any D/x resolves,
\* whatever the order in which the path table is iterated.
C12_RenameDirectory ==
    [][(/\ last'.op = "Rename"
        /\ last'.err = NoErr
        /\ last'.pre = "dir"
        /\ Under(fsys, last'.name) # {})
       => LET D == last'.name
              D2 == last'.to
          IN /\ \A k \in Under(fsys, D) :
                   /\ ReplacePrefix(k, D, D2) \in DOMAIN fsys'
                   /\ fsys'[ReplacePrefix(k, D, D2)] = fsys[k]
                   /\ \A j \in DOMAIN fsys' :
                         fsys'[j] = fsys[k] => j = ReplacePrefix(k, D, D2)
                   /\ ~Resolves(fsys', heap', k)
             /\ ~Resolves(fsys', heap', D)]_vars

\* What the code does when the target does not have D as a string prefix
\* and no other entry has: the loop never meets an entry it made, and the
\* records under D end at D2/x in every order of iteration.
C12_RenameDisjoint ==
    [][(/\ last'.op = "Rename"
        /\ last'.err = NoErr
        /\ last'.pre = "dir"
        /\ Under(fsys, last'.name) # {}
        /\ ~HasPrefix(last'.to, last'.name)
        /\ \A k \in DOMAIN fsys :
              HasPrefix(k, last'.name) =>
                 (k = last'.name \/ k \in Under(fsys, last'.name)))
       => LET D == last'.name
              D2 == last'.to
          IN /\ \A k \in Under(fsys, D) :
                   /\ ReplacePrefix(k, D, D2) \in DOMAIN fsys'
                   /\ fsys'[ReplacePrefix(k, D, D2)] = fsys[k]
                   /\ ~Resolves(fsys', heap', k)
             /\ ~Resolves(fsys', heap', D)]_vars

----------------------------------------------------------------------------
(* C13 *)

\* name has a parent component
HasParent(name) == LastSlash(name) > 0

\* the parent directory of name: name up to its last "/", without it
Parent(name) == SubSeq(name, 1, LastSlash(name) - 1)

\* C13 as stated: Rename(old, new) where new has a parent component and old
\* exists fails with ENOENT when the parent of new does not exist, fails
\* with ENOTDIR when the parent exists but is not a directory, and
\* otherwise (new is not an existing directory, old # new) succeeds and
\* moves the entry into that directory.  (A move of a directory to a name
\* under itself is left aside.)
C13_RenameParent ==
    [][(/\ last'.op = "Rename"
        /\ last'.pre # "none"
        /\ HasParent(last'.to))
       => LET new == last'.to
              parent == Kind(fsys, heap, Parent(new))
          IN IF parent = "none" THEN last'.err = ENOENT
             ELSE IF parent = "file" THEN last'.err = ENOTDIR
             ELSE (/\ Kind(fsys, heap, new) # "dir"
                   /\ last'.name # new
                   /\ ~HasPrefix(new, last'.name \o <<Slash>>))
                     => /\ last'.err = NoErr
                        /\ Resolves(fsys', heap', new)]_vars

\* What the code does: a Rename to a name with a parent component never
\* succeeds; when it gets as far as the check of the parent it fails with
\* ENOENT whatever the parent is, and the table is as before.
C13_RenameParentFails ==
    [][(/\ last'.op = "Rename"
        /\ last'.pre # "none"
        /\ HasParent(last'.to))
       => /\ last'.err \in {ENOENT, EEXIST}
          /\ (Kind(fsys, heap, last'.to) # "dir" /\ last'.name # last'.to)
                => last'.err = ENOENT
          /\ UNCHANGED <<fsys, heap>>]_vars

----------------------------------------------------------------------------
(* C14 *)

\* C14 as stated: Remove on a directory that has at least one entry under
\* it, whether it has an entry of its own or exists only through the
\* entries under it, fails with a not-empty error and leaves the directory
\* and everything under it in place; Remove on a directory with nothing
\* under it succeeds, and the directory no longer resolves.
C14_RemoveDirectory ==
    [][(/\ last'.op = "Remove"
        /\ last'.name # Root
        /\ last'.pre = "dir")
       => IF Under(fsys, last'.name) # {}
          THEN last'.err = ENOTEMPTY /\ UNCHANGED <<fsys, heap>>
          ELSE /\ last'.err = NoErr
               /\ ~Resolves(fsys', heap', last'.name)]_vars

\* What the code does: the same for a directory with an entry of its own;
\* on a directory that exists only through the entries under it Remove
\* fails with ENOENT.  The table is as before whenever Remove fails.
C14_RemoveEntry ==
    [][(/\ last'.op = "Remove"
        /\ last'.name # Root
        /\ last'.pre = "dir")
       => IF last'.name \notin DOMAIN fsys
          THEN last'.err = ENOENT /\ UNCHANGED <<fsys, heap>>
          ELSE IF Under(fsys, last'.name) # {}
          THEN last'.err = ENOTEMPTY /\ UNCHANGED <<fsys, heap>>
          ELSE /\ last'.err = NoErr
               /\ fsys' = Del(fsys, last'.name)
               /\ ~Resolves(fsys', heap', last'.name)]_vars

----------------------------------------------------------------------------
(* C15 *)

\* q is a path under the directory P; every other path is under the root
IsUnder(q, P) == IF P = Root THEN q # Root ELSE HasPrefix(q, P \o <<Slash>>)

\* the paths looked at: the names of the calls and the entries of the table
Known(fs) == FSNames \cup {Root} \cup DOMAIN fs

\* what C15 says of a RemoveAll(P) that led from (fs, hp) to (fs2, hp2)
RemoveAllClears(fs, hp, fs2, hp2, P, err) ==
    /\ err = NoErr
    /\ ~Resolves(fs2, hp2, P)
    /\ \A q \in Known(fs) : IsUnder(q, P) => ~Resolves(fs2, hp2, q)
    /\ RemoveAllOn(fs2, P) = [fs |-> fs2, err |-> NoErr]

\* C15 as stated: RemoveAll(P) never returns an error, also when P is
\* absent; afterwards neither P nor any path under P resolves through Stat;
\* a second RemoveAll(P) right after leaves the path table unchanged.
C15_RemoveAllAny ==
    [][last'.op = "RemoveAll"
       => RemoveAllClears(fsys, heap, fsys', heap', last'.name, last'.err)]_vars

\* C15: for every path P other than the root ".", RemoveAll(P) never
\* returns an error, also when P is absent; afterwards neither P nor any
\* path under P resolves through Stat; a second RemoveAll(P) right after
\* leaves the path table unchanged.
C15_RemoveAll ==
    [][(last'.op = "RemoveAll" /\ last'.name # Root)
       => RemoveAllClears(fsys, heap, fsys', heap', last'.name, last'.err)]_vars

\* RemoveAll took away the directory "d" and what was under it, and left
\* another entry
C15_Witness ==
    /\ last.op = "RemoveAll"
    /\ last.name = PathD
    /\ last.pre = "dir"
    /\ last.err = NoErr
    /\ ~Resolves(fsys, heap, PathD)
    /\ ~Resolves(fsys, heap, PathG)
    /\ PathF \in DOMAIN fsys

----------------------------------------------------------------------------
(* C16 *)

\* C16 as stated: after Mkdir(path, perm) returns nil for plain permission
\* bits perm (0755), the record at path is a directory: Stat(path) reports
\* the directory flag together with the permission bits given.
C16_MkdirMakesDirectory ==
    (/\ last.op = "Mkdir"
     /\ last.err = NoErr
     /\ ~IsDir(last.perm))
    => LET st == Stat(fsys, heap, last.name)
       IN /\ st.err = NoErr
          /\ st.isDir
          /\ st.mode = FileMode(TRUE, last.perm.perm)

\* What the code does: the record Mkdir makes has the mode handed in and
\* nothing else, so that Stat reports a directory only when the caller put
\* fs.ModeDir into perm.
C16_MkdirStoresPerm ==
    (last.op = "Mkdir" /\ last.err = NoErr)
    => LET st == Stat(fsys, heap, last.name)
       IN /\ st.err = NoErr
          /\ st.mode = last.perm
          /\ st.isDir = IsDir(last.perm)

----------------------------------------------------------------------------
(* C17 *)

\* C17 as stated: Mkdir(path, perm) where path has a parent component
\* succeeds when the parent exists and is a directory, fails with a
\* not-found error when the parent does not exist, and fails with a
\* not-a-directory error when the parent is a regular file.
C17_MkdirParent ==
    [][(last'.op = "Mkdir" /\ HasParent(last'.name))
       => LET parent == Kind(fsys, heap, Parent(last'.name))
          IN last'.err = CASE parent = "dir" -> NoErr
                           [] parent = "none" -> ENOENT
                           [] parent = "file" -> ENOTDIR]_vars

\* What the code does: Mkdir of a path with a parent component fails with
\* ENOENT whatever the parent is, and leaves the table as it was.
C17_MkdirParentFails ==
    [][(last'.op = "Mkdir" /\ HasParent(last'.name))
       => last'.err = ENOENT /\ UNCHANGED <<fsys, heap>>]_vars

----------------------------------------------------------------------------
(* C18 *)

\* the ancestors of name: what stands before each "/" of it
Ancestors(name) ==
    {SubSeq(name, 1, i - 1) : i \in {j \in 1..Len(name) : name[j] = Slash}}

\* the path table by value: the mode and the bytes at every name
TableView(fs, hp) == [k \in DOMAIN fs |-> hp[fs[k]]]

\* C18 as stated: after MkdirAll(path, perm) returns nil, path resolves
\* through Stat as a directory and so does every ancestor of path, for every
\* state of the path table before in which no component of path is a
\* regular file.
C18_MkdirAllMakesDirectories ==
    [][(/\ last'.op = "MkdirAll"
        /\ last'.err = NoErr
        /\ \A c \in Ancestors(last'.name) \cup {last'.name} :
              Kind(fsys, heap, c) # "file")
       => \A c \in Ancestors(last'.name) \cup {last'.name} :
             Kind(fsys', heap', c) = "dir"]_vars

\* What the code does: MkdirAll returns nil and puts a record with the mode
\* handed in at path, over whatever was there, and touches no other entry;
\* path is then a directory only when the caller put fs.ModeDir into perm.
C18_MkdirAllPuts ==
    [][last'.op = "MkdirAll"
       => /\ last'.err = NoErr
          /\ TableView(fsys', heap') =
                [k \in DOMAIN fsys \cup {last'.name} |->
                    IF k = last'.name THEN [Mode |-> last'.perm, Data |-> <<>>]
                    ELSE heap[fsys[k]]]
          /\ Stat(fsys', heap', last'.name).isDir = IsDir(last'.perm)]_vars

----------------------------------------------------------------------------
(* C19 *)

\* C19 as stated: if path is already a directory, MkdirAll(path, perm)
\* returns nil and does nothing: the path table, with the record at path,
\* its mode and everything under it, is unchanged.
C19_MkdirAllExisting ==
    [][(last'.op = "MkdirAll" /\ last'.pre = "dir")
       => /\ last'.err = NoErr
          /\ TableView(fsys', heap') = TableView(fsys, heap)]_vars

----------------------------------------------------------------------------
(* C20 *)

\* C20: opening a record that exists ignores the permission handed in.
\* When P resolves with mode m, then after OpenFile(P, flag, perm), Create(P)
\* or WriteFile(fs, P, data, perm), whether the call fails or not, Stat(P)
\* still reports mode m, for every flag combination.
C20_OpenKeepsMode ==
    [][(/\ last'.op \in {"OpenFile", "Create", "WriteFile"}
        /\ Stat(fsys, heap, last'.name).err = NoErr)
       => LET st == Stat(fsys', heap', last'.name)
          IN /\ st.err = NoErr
             /\ st.mode = Stat(fsys, heap, last'.name).mode]_vars

\* a file that exists was opened with O_CREATE|O_TRUNC (by OpenFile, Create
\* or WriteFile) and a permission other than its mode, which it still has
C20_Witness ==
    /\ last.op \in {"OpenFile", "Create", "WriteFile"}
    /\ last.pre = "file"
    /\ last.err = NoErr
    /\ HasFlag(last.flag, O_CREATE) /\ HasFlag(last.flag, O_TRUNC)
    /\ Stat(fsys, heap, last.name).err = NoErr
    /\ Stat(fsys, heap, last.name).mode # last.perm

----------------------------------------------------------------------------
(* C21 *)

\* C21: with one handle on a regular file, after every Write, WriteAt or
\* Truncate that succeeds the reader of the handle holds the bytes the
\* record has now and the cursor is where it was before the call (after a
\* Write: moved on by the bytes written); and a Read that follows on a
\* handle that may read returns the record's bytes from the cursor on.
C21_ResetKeepsCursor ==
    [][/\ (/\ last'.op \in {"Write", "WriteAt", "Truncate"}
           /\ last'.err = NoErr)
          => LET h == last'.h
             IN /\ hs'[h].reader.s = heap'[hs'[h].mfile].Data
                /\ hs'[h].reader.i =
                      last'.pos + (IF last'.op = "Write" THEN last'.n ELSE 0)
       /\ (/\ last.op \in {"Write", "WriteAt", "Truncate"}
           /\ last.err = NoErr
           /\ last'.op = "Read"
           /\ ReadAccess(hs[last'.h].flag))
          => LET h == last'.h
                 D == heap[hs[h].mfile].Data
                 c == hs[h].reader.i
             IN /\ last'.out = SubSeq(D, c + 1, Min(Len(D), c + last'.off))
                /\ last'.n = Len(last'.out)
                /\ last'.err = IF c >= Len(D) THEN EOF ELSE NoErr]_vars

\* a Truncate cut the record below the cursor, which stays where it was,
\* beyond the new end
C21_Witness ==
    /\ last.op = "Truncate"
    /\ last.err = NoErr
    /\ last.pos > 0
    /\ last.off >= 0 /\ last.off < last.pos
    /\ hs[last.h].reader.i = last.pos
    /\ hs[last.h].reader.s = heap[hs[last.h].mfile].Data
    /\ Len(heap[hs[last.h].mfile].Data) = last.off

----------------------------------------------------------------------------
(* C22 *)

\* C22 as stated: every call of the façade that returns an error (OpenFile,
\* Stat, Rename, Remove, Mkdir, MkdirAll) leaves the path table as it was
\* before the call: no entry is added, removed, replaced or changed, also
\* when OpenFile is called with O_CREATE and then fails.
C22_ErrorKeepsTable ==
    [][(/\ last'.op \in {"OpenFile", "Stat", "Rename", "Remove", "Mkdir", "MkdirAll"}
        /\ last'.err # NoErr)
       => TableView(fsys', heap') = TableView(fsys, heap)]_vars

\* What the code does: a call that fails leaves the table as it was, but
\* for an OpenFile with O_CREATE on a name that does not resolve: the entry
\* is put into the table before the open that fails.
C22_ErrorKeepsTableButCreate ==
    [][(/\ last'.op \in {"OpenFile", "Stat", "Rename", "Remove", "Mkdir", "MkdirAll"}
        /\ last'.err # NoErr)
       => IF last'.op = "OpenFile" /\ Creates(fsys, heap, last'.name, last'.flag)
          THEN /\ last'.name \in DOMAIN fsys'
               /\ heap'[fsys'[last'.name]] = [Mode |-> last'.perm, Data |-> <<>>]
          ELSE TableView(fsys', heap') = TableView(fsys, heap)]_vars

----------------------------------------------------------------------------
(* C23 *)

\* C23 as stated: MkdirAll(path, perm) fails with a not-a-directory error
\* and leaves the path table unchanged whenever the parent of path exists
\* and is a regular file.
C23_MkdirAllUnderFile ==
    [][(/\ last'.op = "MkdirAll"
        /\ HasParent(last'.name)
        /\ Kind(fsys, heap, Parent(last'.name)) = "file")
       => /\ last'.err = ENOTDIR
          /\ TableView(fsys', heap') = TableView(fsys, heap)]_vars

----------------------------------------------------------------------------
(* C25 *)

\* C25 as stated: Mkdir and MkdirAll never replace a record that exists.
\* Called on a path that holds a regular file or a directory entry of its
\* own, they leave the record stored at the path (its data and its mode)
\* as it was, whether they return nil or an error.
C25_MkdirKeepsRecord ==
    [][(/\ last'.op \in {"Mkdir", "MkdirAll"}
        /\ last'.name \in DOMAIN fsys)
       => /\ last'.name \in DOMAIN fsys'
          /\ heap'[fsys'[last'.name]] = heap[fsys[last'.name]]]_vars

\* What the code does: a Mkdir or MkdirAll that returns nil puts a new
\* record with the mode handed in at the path, over the record the path had.
C25_MkdirReplaces ==
    [][(/\ last'.op \in {"Mkdir", "MkdirAll"}
        /\ last'.err = NoErr)
       => /\ last'.name \in DOMAIN fsys'
          /\ heap'[fsys'[last'.name]] = [Mode |-> last'.perm, Data |-> <<>>]]_vars

----------------------------------------------------------------------------
(* C24 *)

\* C24 as stated: a directory contains by path segment.  RemoveAll(P) and
\* Rename(P, Q) on a directory P delete or move only P and the entries
\* whose path is P followed by a separator and more; every other entry (but
\* what the Rename puts at Q and below it), so also a sibling whose name
\* only begins with the characters of P, keeps its key and its record.
C24_SegmentContainment ==
    [][(/\ last'.op \in {"RemoveAll", "Rename"}
        /\ last'.pre = "dir"
        /\ last'.err = NoErr)
       => \A k \in DOMAIN fsys :
             (/\ k # last'.name
              /\ ~IsUnder(k, last'.name)
              /\ last'.op = "Rename" => (k # last'.to /\ ~IsUnder(k, last'.to)))
             => /\ k \in DOMAIN fsys'
                /\ heap'[fsys'[k]] = heap[fsys[k]]]_vars

\* What the code does: the entries that keep their key and record are those
\* whose name does not begin with the characters of P (nor, for a Rename,
\* with those of Q).
C24_PrefixContainment ==
    [][(/\ last'.op \in {"RemoveAll", "Rename"}
        /\ last'.pre = "dir"
        /\ last'.err = NoErr)
       => \A k \in DOMAIN fsys :
             (/\ ~HasPrefix(k, last'.name)
              /\ last'.op = "Rename" => ~HasPrefix(k, last'.to))
             => /\ k \in DOMAIN fsys'
                /\ heap'[fsys'[k]] = heap[fsys[k]]]_vars

----------------------------------------------------------------------------
(* C26 *)

\* the offset a Write or WriteAt recorded in c wrote at
WroteAt(c) == IF c.op = "Write" THEN c.pos ELSE c.off

\* the bytes of c.arg lie in D where the call c wrote them
Holds(D, c) ==
    /\ Len(D) >= WroteAt(c) + Len(c.arg)
    /\ SubSeq(D, WroteAt(c) + 1, WroteAt(c) + Len(c.arg)) = c.arg

\* C26: with two write-capable handles A and B open on the same path and
\* their calls interleaved in any order, every Write, WriteAt and Truncate
\* acts on the one record the path table has (on the bytes it holds now,
\* not on the bytes the handle saw when it was opened or last wrote); and
\* when one handle wrote bytes and the other then writes a range that does
\* not overlap them, the record holds the bytes of both afterwards.
C26_TwoWriters ==
    [][/\ (/\ last'.op \in {"Write", "WriteAt", "Truncate"}
           /\ last'.err = NoErr
           /\ last'.off >= 0)
          => LET h == last'.h
                 m == hs[h].mfile
                 D == heap[m].Data
             IN /\ fsys'[hs'[h].name] = m
                /\ \A g \in DOMAIN hs' : hs'[g].open => hs'[g].mfile = m
                /\ heap'[m].Data =
                      IF last'.op = "Truncate"
                      THEN SubSeq(D \o Zeros(last'.off), 1, last'.off)
                      ELSE Overlay(D, last'.arg, WroteAt(last'))
       /\ (/\ last.op \in {"Write", "WriteAt"} /\ last.err = NoErr
           /\ last'.op \in {"Write", "WriteAt"} /\ last'.err = NoErr
           /\ last'.h # last.h
           /\ hs[last.h].open
           /\ \/ WroteAt(last') >= WroteAt(last) + Len(last.arg)
              \/ WroteAt(last) >= WroteAt(last') + Len(last'.arg))
          => LET D == heap'[hs'[last'.h].mfile].Data
             IN Holds(D, last) /\ Holds(D, last')]_vars

\* B, write-only, wrote the bytes up to its cursor (Write is the only call
\* that moves it); A then wrote a byte behind them, at the end of the
\* record or beyond it; the record holds what A wrote and a byte of B
C26_Witness ==
    /\ last.h = "A"
    /\ last.op \in {"Write", "WriteAt"}
    /\ last.err = NoErr
    /\ Len(last.arg) > 0
    /\ hs["A"].open /\ hs["B"].open
    /\ hs["B"].flag = O_WRONLY
    /\ hs["B"].reader.i > 0
    /\ WroteAt(last) >= hs["B"].reader.i
    /\ last.size = hs["B"].reader.i
    /\ \E p \in 1..hs["B"].reader.i : heap[hs["A"].mfile].Data[p] = 1
    /\ Holds(heap[hs["A"].mfile].Data, last)

====
